---- MODULE Spec2Model ----
(***************************************************************************)
(* Model of the contraptionco/mcp indexing and retrieval core:             *)
(*   - PostIndexer.index_all_posts and the ChromaService calls it makes    *)
(*     (src/src/indexer.py, src/src/chroma_service.py)                     *)
(*   - index_posts_background and the event loop it shares with the        *)
(*     query-serving task (src/src/main.py)                                *)
(*   - ChromaService.search / _hybrid_rrf_search / _parse_search_response  *)
(***************************************************************************)
EXTENDS Integers, Sequences, FiniteSets, TLC

(***************************************************************************)
(* Bounds of the model                                                     *)
(***************************************************************************)
\* remote items are identified by ids 1..MaxItems
MaxItems == 2
\* updated_at values are 1..MaxTime; NoTime stands for a missing timestamp
MaxTime == 2
\* indexing cycles started in one behaviour
MaxCycles == 3
\* edits of the remote content set in one behaviour
MaxEdits == 2

\* cycles of the background loop in one behaviour
MaxLoopCycles == 3
\* search requests received in one behaviour
MaxSearches == 2

\* the limit argument of a search ranges over 0..MaxLimit
MaxLimit == 3
\* length of a channel's candidate list (at most rank_limit in the source)
MaxRank == 3
\* rows of a store response handed to _parse_search_response
MaxRows == 3

\* settings.dense_query_weight and settings.sparse_query_weight, in halves
\* (0.5 each; the validator of config.py keeps them equal and not both 0)
DenseWeightX2 == 1
SparseWeightX2 == 1
\* settings.hybrid_rrf_k
HybridRrfK == 42

\* search calls of a run of the query log
MaxLogCalls == 3
\* the seconds the clock of a run of the query log can advance
MaxClock == 1

\* tags of an item
MaxTags == 2
\* characters of a stored "tags" value that the indexer did not write
MaxStored == 4

\* rows of the collection list_posts reads
MaxListRows == 3
\* the limit argument of list_posts ranges over 1..MaxPage
MaxPage == 2

\* words of the paragraph of a post given to the chunker
MaxWords == 5
\* settings.chunk_size ranges over 1..MaxChunkSize
MaxChunkSize == 3
\* settings.chunk_overlap ranges over 0..MaxOverlap
MaxOverlap == 3

\* Chroma Cloud's per-request cap used by every collection.get of the
\* service (limit=300 in the source), scaled down so that a document of the
\* model can hold more chunks than one request returns.
PageLimit == 2

NoTime == 0

Ids == 1..MaxItems
Slugs == {"a", "b"}
Titles == {"", "t"}
\* markdown bodies, as the list of paragraphs _chunk_by_paragraphs returns
Bodies == {<<>>, <<"p">>, <<"p", "q">>}
Times == 0..MaxTime

\* the endpoint an item is pulled from: get_all_posts or get_all_pages
ContentTypeOf(id) == IF id % 2 = 1 THEN "post" ELSE "page"

GhostPost == [id : Ids, slug : Slugs, title : Titles, body : Bodies, updated_at : Times]

KeyOf(item) == <<item.slug, ContentTypeOf(item.id)>>

\* what the content source can hold: ids are unique, and a slug is unique
\* within a content type
RemoteOk(r) ==
    \A x, y \in r : (x.id = y.id \/ KeyOf(x) = KeyOf(y)) => x = y

VARIABLES
    remote,       \* the content source: a set of GhostPost
    store,        \* the content collection: a set of chunk rows
    ipc,          \* position of index_all_posts
    items,        \* content_items, in pull order
    indexed,      \* indexed_content: the snapshot, key -> entry
    pos,          \* loop index into items / into new_items + updated_items
    newItems,     \* new_items
    updatedItems, \* updated_items
    currentKeys,  \* current_keys
    removed,      \* snapshot keys the removal loop has handled
    writes,       \* collection.upsert / collection.delete calls of the cycle
    deleteCalls,  \* keys delete_post was called for in the cycle
    hist,         \* summaries of the last two cycles, latest first
    cycles,       \* cycles started
    edits,        \* edits of the remote set
    bg,           \* position of index_posts_background
    running,      \* the task that holds the event loop
    exc,          \* the exception the cycle raised, not handled yet
    cancelRequested, \* Task.cancel() was called on the background task
    nCycles,      \* index_all_posts calls
    nSleeps,      \* asyncio.sleep calls
    nLogged,      \* logger.exception calls of the generic handler
    arrived,      \* search requests received
    served,       \* search requests answered
    req,          \* the latest call of the search service: its arguments
    res,          \* the latest call of the search service: its outcome
    calls,        \* search calls that reached the hand-over of the query log
    returns,      \* search calls that returned their results
    logRaised,    \* search calls that ended in an exception of the query log
    tasks,        \* the log_query tasks, in the order of their creation
    qlog,         \* the query collection: id -> entry
    now,          \* int(time.time())
    uuids,        \* uuid4 values drawn so far
    ghostTags,    \* GhostPost.tags of an item
    chunkTags,    \* PostChunk.tags built for the item
    storedTags,   \* the "tags" value of a stored metadata record
    tagsOut,      \* the tags each read path has returned, reader -> tags
    tagPc,        \* how far the tags have come
    coll,         \* the rows of content_type "post", in the store's order
    listLimit,    \* the limit argument of the list_posts calls of a walk
    listSort,     \* their sort_by argument
    walkOffset,   \* the offset of the next list_posts call of the walk
    walkOut,      \* the slugs the walk has been given so far
    walkState,    \* "walking", "done" after an empty page, "raised"
    searchOut,    \* the outcome of building a search result from a row
    cPost,        \* the post _build_chunks_and_hash is called for
    cSize,        \* settings.chunk_size
    cOverlap,     \* settings.chunk_overlap
    cPc,          \* position of the chunker
    cI,           \* i of the loop of _chunk_by_paragraphs
    cPara,        \* chunks of _chunk_by_paragraphs
    cChunks,      \* the chunks _build_chunks_and_hash returns
    cHash,        \* the hash it returns
    fReq,         \* the arguments of a get_post_markdown call
    fOut          \* what the call returned

idxVars == <<remote, store, ipc, items, indexed, pos, newItems, updatedItems,
             currentKeys, removed, writes, deleteCalls, hist, cycles, edits>>

loopVars == <<bg, running, exc, cancelRequested, nCycles, nSleeps, nLogged, arrived, served>>

srchVars == <<req, res>>

logVars == <<calls, returns, logRaised, tasks, qlog, now, uuids>>

tagVars == <<ghostTags, chunkTags, storedTags, tagsOut, tagPc>>

listVars == <<coll, listLimit, listSort, walkOffset, walkOut, walkState, searchOut>>

chunkVars == <<cPost, cSize, cOverlap, cPc, cI, cPara, cChunks, cHash>>

fetchVars == <<fReq, fOut>>

vars == <<idxVars, loopVars, srchVars, logVars, tagVars, listVars, chunkVars, fetchVars>>

(***************************************************************************)
(* The chunker                                                             *)
(***************************************************************************)
\* chunks_text of _build_chunks_and_hash: the title, then the paragraphs
ChunksText(item) ==
    (IF item.title # "" THEN <<item.title>> ELSE <<>>) \o item.body

\* sha256 of the joined chunks_text, modelled as the text itself (injective);
\* <<>> stands for None
ContentHash(item) == ChunksText(item)

BuildChunks(item) ==
    LET texts == ChunksText(item) IN
    [i \in 1..Len(texts) |->
        [post_id       |-> item.id,
         post_slug     |-> item.slug,
         chunk_text    |-> texts[i],
         chunk_index   |-> i - 1,
         total_chunks  |-> Len(texts),
         content_type  |-> ContentTypeOf(item.id),
         content_hash  |-> ContentHash(item),
         updated_at    |-> item.updated_at]]

(***************************************************************************)
(* The vector store                                                        *)
(***************************************************************************)
\* the id upsert_chunks gives a chunk
ChunkId(c) == <<c.content_type, c.post_id, c.chunk_index>>

Range(s) == {s[i] : i \in 1..Len(s)}

\* mutant: collection.add, a row of an id the store holds is not replaced
AddChunks(st, chunks) ==
    st \cup {c \in Range(chunks) : ChunkId(c) \notin {ChunkId(r) : r \in st}}

\* collection.upsert: a row replaces the row of the same id
UpsertChunks(st, chunks) ==
    {r \in st : ChunkId(r) \notin {ChunkId(c) : c \in Range(chunks)}} \cup Range(chunks)

\* mutant: the where-clause holds the slug alone
MatchingSlug(st, key) == {r \in st : r.post_slug = key[1]}

\* the rows a where-clause on post_slug and content_type matches
Matching(st, key) ==
    {r \in st : r.post_slug = key[1] /\ r.content_type = key[2]}

Min(a, b) == IF a < b THEN a ELSE b

\* collection.get(where=..., limit=PageLimit): the store returns at most
\* PageLimit of the matching rows, in an order of its own
GetPages(st, key) ==
    {g \in SUBSET Matching(st, key) :
        Cardinality(g) = Min(PageLimit, Cardinality(Matching(st, key)))}

\* the keys of the rows of the store
StoreKeys(st) == {<<r.post_slug, r.content_type>> : r \in st}

\* get_indexed_content_index: every page is read; a key's entry is taken
\* from the first of its rows in the store's order
SnapshotEntry(r) == [updated_at |-> r.updated_at, content_hash |-> r.content_hash]

Snapshots(st) ==
    {[k \in StoreKeys(st) |-> SnapshotEntry(f[k])] :
        f \in {g \in [StoreKeys(st) -> st] : \A k \in StoreKeys(st) : g[k] \in Matching(st, k)}}

(***************************************************************************)
(* index_all_posts                                                         *)
(***************************************************************************)
\* the orders a pull can deliver: posts first, then pages
PullOrders(r) ==
    {s \in [1..Cardinality(r) -> r] :
        /\ \A i, j \in 1..Cardinality(r) : s[i] = s[j] => i = j
        /\ \A i, j \in 1..Cardinality(r) :
              (ContentTypeOf(s[i].id) = "page" /\ ContentTypeOf(s[j].id) = "post") => j < i}

\* new_items + updated_items
WorkList == newItems \o updatedItems

\* what is known of a cycle when it ends: whether it returned, the items it
\* pulled, its store writes, the step it ended at and, when it ended between
\* the delete and the upsert of index_post, the item of that call
Summary(ok) ==
    [complete |-> ok, remote |-> Range(items), writes |-> writes, at |-> ipc,
     cut |-> IF ipc = "upsert" THEN {WorkList[pos]} ELSE {}]

Push(h, e) == IF h = <<>> THEN <<e>> ELSE <<e, h[1]>>

\* an edit of the content source between two cycles
ChangeRemote ==
    /\ ipc = "idle"
    /\ edits < MaxEdits
    /\ \E id \in Ids :
          \/ \E p \in {q \in GhostPost : q.id = id} :
                /\ remote' = {x \in remote : x.id # id} \cup {p}
                /\ remote' # remote
                /\ RemoteOk(remote')
          \/ /\ \E x \in remote : x.id = id
             /\ remote' = {x \in remote : x.id # id}
    /\ edits' = edits + 1
    /\ UNCHANGED <<store, ipc, items, indexed, pos, newItems, updatedItems,
                   currentKeys, removed, writes, deleteCalls, hist, cycles>>
    /\ UNCHANGED <<loopVars, srchVars, logVars, tagVars, listVars, chunkVars, fetchVars>>

\* lines 158-168: the two pulls, the snapshot, the empty work lists
BeginCycle ==
    /\ ipc = "idle"
    /\ cycles < MaxCycles
    /\ cycles' = cycles + 1
    /\ items' \in PullOrders(remote)
    /\ indexed' \in Snapshots(store)
    /\ pos' = 1
    /\ newItems' = <<>>
    /\ updatedItems' = <<>>
    /\ currentKeys' = {}
    /\ removed' = {}
    /\ writes' = 0
    /\ deleteCalls' = {}
    /\ ipc' = "classify"
    /\ UNCHANGED <<remote, store, hist, edits>>
    /\ UNCHANGED <<loopVars, srchVars, logVars, tagVars, listVars, chunkVars, fetchVars>>

\* delete_post(slug, content_type): one get of at most PageLimit rows, and
\* a collection.delete of the ids it returned
DeletePost(key) ==
    \E got \in GetPages(store, key) :
        /\ store' = store \ got
        /\ writes' = IF got # {} THEN writes + 1 ELSE writes
        /\ deleteCalls' = deleteCalls \cup {key}

\* mutant: the timestamps are not looked at
NeedsUpdateHashOnly(item, existing) == ContentHash(item) # existing.content_hash

\* lines 193-202
NeedsUpdate(item, existing) ==
    LET hash_changed == ContentHash(item) # existing.content_hash
        updated == /\ item.updated_at # NoTime
                   /\ existing.updated_at # NoTime
                   /\ item.updated_at > existing.updated_at
    IN hash_changed \/ updated

\* one iteration of the loop of lines 170-203
ClassifyItem ==
    /\ ipc = "classify"
    /\ pos <= Len(items)
    /\ LET content == items[pos]
           key == KeyOf(content)
           chunks == BuildChunks(content)
       IN /\ currentKeys' = currentKeys \cup {key}
          /\ IF chunks = <<>>
             THEN /\ IF key \in DOMAIN indexed
                     THEN DeletePost(key)
                     ELSE UNCHANGED <<store, writes, deleteCalls>>
                  /\ UNCHANGED <<newItems, updatedItems>>
             ELSE /\ UNCHANGED <<store, writes, deleteCalls>>
                  /\ IF key \notin DOMAIN indexed
                     THEN /\ newItems' = Append(newItems, content)
                          /\ UNCHANGED updatedItems
                     ELSE IF NeedsUpdate(content, indexed[key])
                          THEN /\ updatedItems' = Append(updatedItems, content)
                               /\ UNCHANGED newItems
                          ELSE UNCHANGED <<newItems, updatedItems>>
    /\ pos' = pos + 1
    /\ UNCHANGED <<remote, ipc, items, indexed, removed, hist, cycles, edits>>
    /\ UNCHANGED <<loopVars, srchVars, logVars, tagVars, listVars, chunkVars, fetchVars>>

\* lines 205-211: the classification loop is over
ClassifyDone ==
    /\ ipc = "classify"
    /\ pos > Len(items)
    /\ ipc' = "index"
    /\ pos' = 1
    /\ UNCHANGED <<remote, store, items, indexed, newItems, updatedItems, currentKeys,
                   removed, writes, deleteCalls, hist, cycles, edits>>
    /\ UNCHANGED <<loopVars, srchVars, logVars, tagVars, listVars, chunkVars, fetchVars>>

\* index_post, line 144: the delete of the key's stored chunks
IndexPostDelete ==
    /\ ipc = "index"
    /\ pos <= Len(WorkList)
    /\ DeletePost(KeyOf(WorkList[pos]))
    /\ ipc' = "upsert"
    /\ UNCHANGED <<remote, items, indexed, pos, newItems, updatedItems, currentKeys,
                   removed, hist, cycles, edits>>
    /\ UNCHANGED <<loopVars, srchVars, logVars, tagVars, listVars, chunkVars, fetchVars>>

\* index_post, lines 149-150: the upsert of the chunks built for the item
IndexPostUpsert ==
    /\ ipc = "upsert"
    /\ store' = UpsertChunks(store, BuildChunks(WorkList[pos]))
    /\ writes' = writes + 1
    /\ pos' = pos + 1
    /\ ipc' = "index"
    /\ UNCHANGED <<remote, items, indexed, newItems, updatedItems, currentKeys,
                   removed, deleteCalls, hist, cycles, edits>>
    /\ UNCHANGED <<loopVars, srchVars, logVars, tagVars, listVars, chunkVars, fetchVars>>

\* line 211: the work list is exhausted
IndexDone ==
    /\ ipc = "index"
    /\ pos > Len(WorkList)
    /\ ipc' = "remove"
    /\ UNCHANGED <<remote, store, items, indexed, pos, newItems, updatedItems, currentKeys,
                   removed, writes, deleteCalls, hist, cycles, edits>>
    /\ UNCHANGED <<loopVars, srchVars, logVars, tagVars, listVars, chunkVars, fetchVars>>

\* the snapshot keys the removal loop still has to delete
ToRemove == (DOMAIN indexed \ currentKeys) \ removed

\* lines 214-217: one snapshot key that is not in current_keys
RemoveDeleted ==
    /\ ipc = "remove"
    /\ \E key \in ToRemove :
          /\ DeletePost(key)
          /\ removed' = removed \cup {key}
    /\ UNCHANGED <<remote, ipc, items, indexed, pos, newItems, updatedItems, currentKeys,
                   hist, cycles, edits>>
    /\ UNCHANGED <<loopVars, srchVars, logVars, tagVars, listVars, chunkVars, fetchVars>>

\* line 219: the cycle returns
FinishCycle ==
    /\ ipc = "remove"
    /\ ToRemove = {}
    /\ ipc' = "idle"
    /\ hist' = Push(hist, Summary(TRUE))
    /\ UNCHANGED <<remote, store, items, indexed, pos, newItems, updatedItems, currentKeys,
                   removed, writes, deleteCalls, cycles, edits>>
    /\ UNCHANGED <<loopVars, srchVars, logVars, tagVars, listVars, chunkVars, fetchVars>>

\* the cycle stands at a store or embedding call: the delete_post of an
\* item without chunks (line 182), the delete_post or the upsert_chunks of
\* index_post (lines 144, 150), the delete_post of the removal pass (line 216)
AtStoreCall ==
    \/ /\ ipc = "classify"
       /\ pos <= Len(items)
       /\ BuildChunks(items[pos]) = <<>>
       /\ KeyOf(items[pos]) \in DOMAIN indexed
    \/ ipc = "index" /\ pos <= Len(WorkList)
    \/ ipc = "upsert"
    \/ ipc = "remove" /\ ToRemove # {}

\* a store or embedding call raises: index_all_posts has no handler, the
\* exception leaves the cycle where it stands
CycleFails ==
    /\ AtStoreCall
    /\ ipc' = "idle"
    /\ hist' = Push(hist, Summary(FALSE))
    /\ UNCHANGED <<remote, store, items, indexed, pos, newItems, updatedItems, currentKeys,
                   removed, writes, deleteCalls, cycles, edits>>
    /\ UNCHANGED <<loopVars, srchVars, logVars, tagVars, listVars, chunkVars, fetchVars>>

InitIndex ==
    /\ remote = {}
    /\ store = {}
    /\ ipc = "idle"
    /\ items = <<>>
    /\ indexed = <<>>
    /\ pos = 1
    /\ newItems = <<>>
    /\ updatedItems = <<>>
    /\ currentKeys = {}
    /\ removed = {}
    /\ writes = 0
    /\ deleteCalls = {}
    /\ hist = <<>>
    /\ cycles = 0
    /\ edits = 0

(***************************************************************************)
(* index_posts_background and the event loop (src/src/main.py)             *)
(***************************************************************************)
\* the awaits of a cycle that suspend the task: the httpx calls of the
\* content source and of the client's close
Awaited == {"get_all_posts", "get_all_pages", "aclose", "sleep"}

\* the calls of a cycle made on the synchronous chromadb / voyageai clients,
\* inside coroutines that hold no await: the task keeps the event loop
Blocking == {"get_indexed_content_index", "delete_post", "upsert_chunks"}

InCycle == {"get_all_posts", "get_all_pages", "aclose"} \cup Blocking

\* mutant: the CancelledError clause is missing and the generic handler
\* catches the cancellation too
CycleHandlerSwallowsCancel(e) ==
    IF e \in {"CancelledError", "Exception"} THEN "log" ELSE "none"

\* mutant: the generic handler re-raises instead of logging
CycleHandlerReraises(e) ==
    IF e \in {"CancelledError", "Exception"} THEN "raise" ELSE "none"

\* what the handlers of lines 31-34 do with an exception of the cycle
CycleHandler(e) ==
    IF e = "CancelledError" THEN "raise"
    ELSE IF e = "Exception" THEN "log"
    ELSE "none"

\* what the handler of lines 38-39 does with an exception of the sleep
SleepHandler(e) ==
    IF e = "CancelledError" THEN "raise" ELSE "none"

\* the position after the handlers ran on exception e (or on none)
AfterHandler(action) ==
    IF action = "raise" THEN "cancelled" ELSE "sleep"

\* lines 24-29: the top of the loop; the cycle starts and suspends on its
\* first pull
BgBeginCycle ==
    /\ bg = "start"
    /\ running = "indexer"
    /\ nCycles' = nCycles + 1
    /\ bg' = "get_all_posts"
    /\ running' = "none"
    /\ UNCHANGED <<exc, cancelRequested, nSleeps, nLogged, arrived, served>>
    /\ UNCHANGED <<idxVars, srchVars, logVars, tagVars, listVars, chunkVars, fetchVars>>

\* the event loop resumes the task at an await of the content source
PullReturns ==
    /\ bg \in {"get_all_posts", "get_all_pages"}
    /\ running = "none"
    /\ IF cancelRequested
       THEN /\ bg' = AfterHandler(CycleHandler("CancelledError"))
            /\ nLogged' = IF CycleHandler("CancelledError") = "log" THEN nLogged + 1 ELSE nLogged
            /\ nSleeps' = IF CycleHandler("CancelledError") = "raise" THEN nSleeps ELSE nSleeps + 1
            /\ UNCHANGED <<running, exc>>
       ELSE /\ \/ /\ bg = "get_all_posts"
                  /\ bg' = "get_all_pages"
                  /\ UNCHANGED <<running, exc>>
               \/ /\ bg = "get_all_pages"
                  /\ bg' = "get_indexed_content_index"
                  /\ running' = "indexer"
                  /\ UNCHANGED exc
               \/ /\ bg' = "aclose"
                  /\ exc' = "Exception"
                  /\ UNCHANGED running
            /\ UNCHANGED <<nLogged, nSleeps>>
    /\ UNCHANGED <<cancelRequested, nCycles, arrived, served>>
    /\ UNCHANGED <<idxVars, srchVars, logVars, tagVars, listVars, chunkVars, fetchVars>>

\* a store or embedding call of the cycle returns or raises; the next call
\* follows without the task leaving the event loop
StoreCallReturns ==
    /\ bg \in Blocking
    /\ running = "indexer"
    /\ \/ /\ bg' \in {"delete_post", "upsert_chunks"}
          /\ bg = "get_indexed_content_index" => bg' = "delete_post"
          /\ bg = "upsert_chunks" => bg' = "delete_post"
          /\ UNCHANGED <<running, exc>>
       \/ /\ bg' = "aclose"
          /\ running' = "none"
          /\ UNCHANGED exc
       \/ /\ bg' = "aclose"
          /\ running' = "none"
          /\ exc' = "Exception"
    /\ UNCHANGED <<cancelRequested, nCycles, nSleeps, nLogged, arrived, served>>
    /\ UNCHANGED <<idxVars, srchVars, logVars, tagVars, listVars, chunkVars, fetchVars>>

\* GhostAPIClient.__aexit__ returns: the handlers of the cycle run, then
\* line 37 starts the sleep
CloseReturns ==
    /\ bg = "aclose"
    /\ running = "none"
    /\ \E raised \in {IF cancelRequested THEN "CancelledError" ELSE exc,
                      IF cancelRequested THEN "CancelledError" ELSE "Exception"} :
          /\ bg' = AfterHandler(CycleHandler(raised))
          /\ nLogged' = IF CycleHandler(raised) = "log" THEN nLogged + 1 ELSE nLogged
          /\ nSleeps' = IF CycleHandler(raised) = "raise" THEN nSleeps ELSE nSleeps + 1
    /\ exc' = "none"
    /\ UNCHANGED <<running, cancelRequested, nCycles, arrived, served>>
    /\ UNCHANGED <<idxVars, srchVars, logVars, tagVars, listVars, chunkVars, fetchVars>>

\* asyncio.sleep returns or is cancelled
SleepReturns ==
    /\ bg = "sleep"
    /\ running = "none"
    /\ IF cancelRequested
       THEN /\ bg' = IF SleepHandler("CancelledError") = "raise" THEN "cancelled" ELSE "start"
            /\ running' = IF SleepHandler("CancelledError") = "raise" THEN "none" ELSE "indexer"
       ELSE /\ nCycles < MaxLoopCycles
            /\ bg' = "start"
            /\ running' = "indexer"
    /\ UNCHANGED <<exc, cancelRequested, nCycles, nSleeps, nLogged, arrived, served>>
    /\ UNCHANGED <<idxVars, srchVars, logVars, tagVars, listVars, chunkVars, fetchVars>>

\* Task.cancel() on the background task, from code that runs on the loop
CancelTask ==
    /\ ~cancelRequested
    /\ running # "indexer"
    /\ bg # "cancelled"
    /\ cancelRequested' = TRUE
    /\ UNCHANGED <<bg, running, exc, nCycles, nSleeps, nLogged, arrived, served>>
    /\ UNCHANGED <<idxVars, srchVars, logVars, tagVars, listVars, chunkVars, fetchVars>>

\* a search request reaches the HTTP server
SearchArrives ==
    /\ arrived < MaxSearches
    /\ arrived' = arrived + 1
    /\ UNCHANGED <<bg, running, exc, cancelRequested, nCycles, nSleeps, nLogged, served>>
    /\ UNCHANGED <<idxVars, srchVars, logVars, tagVars, listVars, chunkVars, fetchVars>>

\* the server task takes up a request: it needs the event loop
ServeSearchBegin ==
    /\ served < arrived
    /\ running = "none"
    /\ running' = "server"
    /\ UNCHANGED <<bg, exc, cancelRequested, nCycles, nSleeps, nLogged, arrived, served>>
    /\ UNCHANGED <<idxVars, srchVars, logVars, tagVars, listVars, chunkVars, fetchVars>>

\* ChromaService.search returns: its embedding and store calls are
\* synchronous, the server task held the loop throughout
ServeSearchEnd ==
    /\ running = "server"
    /\ running' = "none"
    /\ served' = served + 1
    /\ UNCHANGED <<bg, exc, cancelRequested, nCycles, nSleeps, nLogged, arrived>>
    /\ UNCHANGED <<idxVars, srchVars, logVars, tagVars, listVars, chunkVars, fetchVars>>

InitLoop ==
    /\ bg = "start"
    /\ running = "indexer"
    /\ exc = "none"
    /\ cancelRequested = FALSE
    /\ nCycles = 0
    /\ nSleeps = 0
    /\ nLogged = 0
    /\ arrived = 0
    /\ served = 0

NextLoop ==
    \/ BgBeginCycle
    \/ PullReturns
    \/ StoreCallReturns
    \/ CloseReturns
    \/ SleepReturns
    \/ CancelTask
    \/ SearchArrives
    \/ ServeSearchBegin
    \/ ServeSearchEnd

(***************************************************************************)
(* ChromaService.search (src/src/chroma_service.py 336-513)                *)
(***************************************************************************)
\* rows of the collection a search can hit: A and B are chunks with the same
\* post_url, C has another one, D's metadata holds no post_url, and E is a
\* row whose metadata is missing
Docs == {"A", "B", "C", "D"}
Rows == Docs \cup {"E"}

UrlOf(d) == IF d \in {"A", "B"} THEN "u" ELSE IF d = "C" THEN "v" ELSE ""
HasMetadata(d) == d # "E"

\* sequences without repetition over S, of length at most n
RECURSIVE Lists(_, _)
Lists(S, n) ==
    IF n = 0 THEN {<<>>}
    ELSE {<<>>} \cup UNION {{<<d>> \o t : t \in Lists(S \ {d}, n - 1)} : d \in S}

\* 1-based position of d in a candidate list, 0 when it is absent
RankIn(list, d) ==
    IF \E i \in 1..Len(list) : list[i] = d
    THEN CHOOSE i \in 1..Len(list) : list[i] = d
    ELSE 0

\* scores are kept as integers: every score is multiplied by
\* 2 * (k+1) * ... * (k+MaxRank)
RECURSIVE RankProduct(_)
RankProduct(n) == IF n = 0 THEN 1 ELSE (HybridRrfK + n) * RankProduct(n - 1)

ScoreScale == RankProduct(MaxRank)

\* mutant: the configured weight counts whether or not the embedding is there
EffectiveWeightAlways(configured, embedding) == configured

\* lines 386-387: a weight counts only if the embedding is there
EffectiveWeight(configured, embedding) ==
    IF embedding = "vec" THEN configured ELSE 0

\* line 393
RankLimit(limit) ==
    LET a == IF limit * 5 > limit THEN limit * 5 ELSE limit
    IN IF a > 128 THEN a ELSE 128

\* line 423
ResultLimit(limit) == IF limit * 3 > limit THEN limit * 3 ELSE limit

\* lines 403 and 412: Val(-weight) / (Val(rrf_k) + knn), for a row of rank r
Term(weight, r) == (0 - weight) * (ScoreScale \div (HybridRrfK + r))

\* the channels of the expression in which row d has no rank
Unranked(dw, sw, dl, sl, d) ==
    (IF dw > 0 /\ RankIn(dl, d) = 0 THEN {"dense"} ELSE {})
    \cup (IF sw > 0 /\ RankIn(sl, d) = 0 THEN {"sparse"} ELSE {})

\* lines 395-415: the value the store gives rank_expression for row d, a
\* channel being part of the expression when its weight is positive; a Knn
\* term is built
\* without a default, so for a row outside the channel's candidate list the
\* term has no value of the code's choosing; the store then either drops the
\* row ("dropped") or leaves the term out of the sum ("zero")
ExpressionValue(dw, sw, dl, sl, d) ==
    (IF dw > 0 /\ RankIn(dl, d) # 0 THEN Term(dw, RankIn(dl, d)) ELSE 0)
    + (IF sw > 0 /\ RankIn(sl, d) # 0 THEN Term(sw, RankIn(sl, d)) ELSE 0)

Scored(dw, sw, dl, sl, missing) ==
    {d \in Docs :
        /\ Unranked(dw, sw, dl, sl, d) # {"dense", "sparse"} \cap
              ((IF dw > 0 THEN {"dense"} ELSE {}) \cup (IF sw > 0 THEN {"sparse"} ELSE {}))
        /\ missing = "dropped" => Unranked(dw, sw, dl, sl, d) = {}}

\* the orders in which the store can return the rows of S: ascending value
\* of the rank expression, rows of equal value in any order
RECURSIVE Ascending(_, _)
Ascending(S, f) ==
    IF S = {} THEN {<<>>}
    ELSE UNION {{<<d>> \o t : t \in Ascending(S \ {d}, f)} :
                    d \in {x \in S : \A y \in S : f[x] <= f[y]}}

\* GroupBy(keys="post_url", aggregate=MinK(keys="#score", k=1)) on rows in
\* ascending order: the first row of each post_url; rows without a post_url
\* form one group or are left alone, as the store decides
GroupByUrl(rows, collapse) ==
    LET keep(i) == \A j \in 1..(i - 1) :
                      \/ UrlOf(rows[j]) # UrlOf(rows[i])
                      \/ (UrlOf(rows[i]) = "" /\ ~collapse)
        idx == {i \in 1..Len(rows) : keep(i)}
        RECURSIVE build(_)
        build(i) == IF i > Len(rows) THEN <<>>
                    ELSE (IF i \in idx THEN <<rows[i]>> ELSE <<>>) \o build(i + 1)
    IN build(1)

Prefix(rows, n) == SubSeq(rows, 1, Min(n, Len(rows)))

\* mutant: a row is never taken for a repetition
AlreadySeenNever(url, seen) == FALSE

\* line 491
AlreadySeen(url, seen) == url # "" /\ url \in seen

\* line 510
LimitReached(n, limit) == n >= limit

\* lines 484-511: the loop over the rows of the response
RECURSIVE ParseFrom(_, _, _, _, _, _)
ParseFrom(rows, i, limit, distinct, seen, acc) ==
    IF i > Len(rows) THEN acc
    ELSE IF ~HasMetadata(rows[i]) THEN ParseFrom(rows, i + 1, limit, distinct, seen, acc)
    ELSE IF distinct /\ AlreadySeen(UrlOf(rows[i]), seen)
         THEN ParseFrom(rows, i + 1, limit, distinct, seen, acc)
    ELSE LET acc2 == Append(acc, rows[i])
             seen2 == IF distinct /\ UrlOf(rows[i]) # ""
                      THEN seen \cup {UrlOf(rows[i])} ELSE seen
         IN IF LimitReached(Len(acc2), limit) THEN acc2
            ELSE ParseFrom(rows, i + 1, limit, distinct, seen2, acc2)

\* _parse_search_response
ParseSearchResponse(rows, limit, distinct) ==
    ParseFrom(rows, 1, limit, distinct, {}, <<>>)

NoOutcome == [status |-> "none", dw |-> 0, sw |-> 0, searches |-> 0,
              ranking |-> <<>>, response |-> <<>>, results |-> <<>>]

\* _hybrid_rrf_search on the embeddings dense and sparse ("vec" or "none"),
\* against a store whose channel lists are dl and sl
HybridOutcomes(dense, sparse, dl, sl, limit, distinct) ==
    LET dw == EffectiveWeight(DenseWeightX2, dense)
        sw == EffectiveWeight(SparseWeightX2, sparse)
    IN IF dw = 0 /\ sw = 0
       THEN {[NoOutcome EXCEPT !.status = "NotImplementedError"]}
       ELSE {[status   |-> "ok", dw |-> dw, sw |-> sw, searches |-> 1,
              ranking  |-> ranking,
              response |-> response,
              results  |-> ParseSearchResponse(response, limit, distinct)] :
                <<ranking, response>> \in
                  UNION {UNION {{<<rk, Prefix(IF distinct THEN GroupByUrl(rk, collapse) ELSE rk,
                                             ResultLimit(limit))>> :
                                   rk \in Ascending(Scored(dw, sw, dl, sl, missing),
                                                    [d \in Docs |-> ExpressionValue(dw, sw, dl, sl, d)])} :
                                collapse \in IF distinct THEN BOOLEAN ELSE {FALSE}} :
                         missing \in {"dropped", "zero"}}}

\* mutant: the failure of the dense embedding is not caught
DenseEmbeddingUncaught(outcome) == outcome

\* lines 343-347: the dense embedding, None when embed_query raised
DenseEmbedding(outcome) == IF outcome = "raised" THEN "none" ELSE outcome

\* the channel lists the store holds for a query
ChannelLists == Lists(Docs, MaxRank)

\* a call of the search service: the operation, its arguments, what the
\* embedding services answer and the channel lists the store holds
NoRequest == [op |-> "none", limit |-> 0, distinct |-> FALSE,
              dense |-> "none", sparse |-> "none",
              dl |-> <<>>, sl |-> <<>>, rows |-> <<>>]

SearchRequests ==
    {[NoRequest EXCEPT !.op = "search", !.limit = limit, !.distinct = distinct,
                       !.dense = dense, !.sparse = sparse, !.dl = dl, !.sl = sl] :
        limit \in 0..MaxLimit, distinct \in BOOLEAN,
        dense \in {"vec", "raised"}, sparse \in {"vec", "raised"},
        dl \in ChannelLists, sl \in ChannelLists}

HybridRequests ==
    {[NoRequest EXCEPT !.op = "hybrid", !.limit = limit, !.distinct = distinct,
                       !.dense = dense, !.sparse = sparse, !.dl = dl, !.sl = sl] :
        limit \in 0..MaxLimit, distinct \in BOOLEAN,
        dense \in {"vec", "none"}, sparse \in {"vec", "none"},
        dl \in ChannelLists, sl \in ChannelLists}

ParseRequests ==
    {[NoRequest EXCEPT !.op = "parse", !.limit = limit, !.distinct = distinct,
                       !.rows = rows] :
        limit \in 0..MaxLimit, distinct \in BOOLEAN, rows \in Lists(Rows, MaxRows)}

\* a channel whose embedding is missing is not searched, and a candidate
\* list holds at most rank_limit rows
Requests ==
    {r \in SearchRequests \cup HybridRequests \cup ParseRequests :
        /\ r.dense # "vec" => r.dl = <<>>
        /\ r.sparse # "vec" => r.sl = <<>>
        /\ Len(r.dl) <= RankLimit(r.limit)
        /\ Len(r.sl) <= RankLimit(r.limit)}

\* ChromaService.search(query, limit, distinct_results)
Search ==
    /\ req.op = "search"
    /\ res.status = "none"
    /\ IF DenseEmbedding(req.dense) = "raised" \/ req.sparse = "raised"
       THEN res' = [NoOutcome EXCEPT !.status = "EmbeddingError"]
       ELSE res' \in HybridOutcomes(DenseEmbedding(req.dense), req.sparse,
                                    req.dl, req.sl, req.limit, req.distinct)
    /\ UNCHANGED <<req, idxVars, loopVars, logVars, tagVars, listVars, chunkVars, fetchVars>>

\* _hybrid_rrf_search called with each embedding present or None
HybridRrfSearch ==
    /\ req.op = "hybrid"
    /\ res.status = "none"
    /\ res' \in HybridOutcomes(req.dense, req.sparse, req.dl, req.sl,
                               req.limit, req.distinct)
    /\ UNCHANGED <<req, idxVars, loopVars, logVars, tagVars, listVars, chunkVars, fetchVars>>

\* _parse_search_response called on a response of the store
ParseResponse ==
    /\ req.op = "parse"
    /\ res.status = "none"
    /\ res' = [NoOutcome EXCEPT !.status = "ok", !.response = req.rows,
                  !.results = ParseSearchResponse(req.rows, req.limit, req.distinct)]
    /\ UNCHANGED <<req, idxVars, loopVars, logVars, tagVars, listVars, chunkVars, fetchVars>>

\* no call of the search service
InitSearch ==
    /\ req = NoRequest
    /\ res = NoOutcome

\* one call of the search service, on any arguments
InitRequest ==
    /\ req \in Requests
    /\ res = NoOutcome

NextSearch ==
    \/ Search
    \/ HybridRrfSearch
    \/ ParseResponse

(***************************************************************************)
(* The query log (src/src/chroma_service.py 358-376, 562-603)              *)
(***************************************************************************)
\* query texts; "" is the empty query
Queries == {"", "q", "r"}

\* what a run of _log_query_sync meets: the constructor of
\* QueryEmbeddingService raises, embed_query raises, the upsert raises, the
\* upsert is done and close() raises, or all of it succeeds
LogOutcomes == {"ctor_raised", "embed_raised", "upsert_raised", "close_raised", "written"}

\* the runs in which query_collection.upsert was carried out
Wrote(outcome) == outcome \in {"close_raised", "written"}

\* lines 578-603: an exception leaves _log_query_sync when it is raised
\* outside the try block (the constructor) or inside the finally clause
LogSyncRaises(outcome) == outcome \in {"ctor_raised", "close_raised"}

\* mutant: the id is built from the timestamp alone
QueryIdOfTimestamp(timestamp, uuid) == <<"query", timestamp, 0>>

\* line 582: f"query_{timestamp}_{uuid.uuid4().hex}"
QueryId(timestamp, uuid) == <<"query", timestamp, uuid>>

\* query_collection.upsert of one entry: it replaces the entry of the id
QueryUpsert(log, id, entry) ==
    [i \in DOMAIN log \cup {id} |-> IF i = id THEN entry ELSE log[i]]

\* lines 567-570: log_query catches what the thread raised
LogQueryHandler(e) == IF e = "Exception" THEN "log" ELSE "none"

\* mutant: search awaits log_query
LogDispatchAwait == "await"

\* line 374: asyncio.create_task(self.log_query(query, top_match))
LogDispatch == "create_task"

\* search, lines 358-376: the results are there; the printout, whose
\* failures are swallowed; the log_query task is created; the results are
\* returned
SearchLogsQuery ==
    /\ calls < MaxLogCalls
    /\ \E query \in Queries :
          tasks' = Append(tasks, [query |-> query, state |-> "created",
                                  timestamp |-> 0, outcome |-> "none",
                                  awaited |-> LogDispatch = "await"])
    /\ calls' = calls + 1
    /\ returns' = IF LogDispatch = "create_task" THEN returns + 1 ELSE returns
    /\ UNCHANGED <<logRaised, qlog, now, uuids>>
    /\ UNCHANGED <<idxVars, loopVars, srchVars, tagVars, listVars, chunkVars, fetchVars>>

\* the end of a log_query task: a search that awaited it goes on
TaskEnds(i, state) ==
    /\ returns' = IF tasks[i].awaited /\ state = "done" THEN returns + 1 ELSE returns
    /\ logRaised' = IF tasks[i].awaited /\ state = "failed" THEN logRaised + 1 ELSE logRaised

\* log_query, lines 563-568: the event loop runs the task; an empty query
\* ends it, any other is handed to a thread with the time of this moment
LogQueryBegins ==
    /\ \E i \in 1..Len(tasks) :
          /\ tasks[i].state = "created"
          /\ IF tasks[i].query = ""
             THEN /\ tasks' = [tasks EXCEPT ![i].state = "done", ![i].outcome = "skipped"]
                  /\ TaskEnds(i, "done")
             ELSE /\ tasks' = [tasks EXCEPT ![i].state = "in_thread", ![i].timestamp = now]
                  /\ UNCHANGED <<returns, logRaised>>
    /\ UNCHANGED <<calls, qlog, now, uuids>>
    /\ UNCHANGED <<idxVars, loopVars, srchVars, tagVars, listVars, chunkVars, fetchVars>>

\* _log_query_sync in its thread, and the rest of log_query
LogQuerySync ==
    /\ \E i \in 1..Len(tasks), outcome \in LogOutcomes :
          /\ tasks[i].state = "in_thread"
          /\ LET uuid == Cardinality(uuids) + 1
                 entry == [document |-> tasks[i].query, query_ts |-> tasks[i].timestamp]
                 state == IF LogSyncRaises(outcome) /\ LogQueryHandler("Exception") # "log"
                          THEN "failed" ELSE "done"
             IN /\ IF outcome \in {"upsert_raised", "close_raised", "written"}
                   THEN uuids' = uuids \cup {uuid}
                   ELSE UNCHANGED uuids
                /\ IF Wrote(outcome)
                   THEN qlog' = QueryUpsert(qlog, QueryId(tasks[i].timestamp, uuid), entry)
                   ELSE UNCHANGED qlog
                /\ tasks' = [tasks EXCEPT ![i].state = state, ![i].outcome = outcome]
                /\ TaskEnds(i, state)
    /\ UNCHANGED <<calls, now>>
    /\ UNCHANGED <<idxVars, loopVars, srchVars, tagVars, listVars, chunkVars, fetchVars>>

\* a second passes
ClockTicks ==
    /\ now < MaxClock
    /\ now' = now + 1
    /\ UNCHANGED <<calls, returns, logRaised, tasks, qlog, uuids>>
    /\ UNCHANGED <<idxVars, loopVars, srchVars, tagVars, listVars, chunkVars, fetchVars>>

InitLog ==
    /\ calls = 0
    /\ returns = 0
    /\ logRaised = 0
    /\ tasks = <<>>
    /\ qlog = <<>>
    /\ now = 0
    /\ uuids = {}

NextLog ==
    \/ SearchLogsQuery
    \/ LogQueryBegins
    \/ LogQuerySync
    \/ ClockTicks

(***************************************************************************)
(* Tags: indexer.py 118, chroma_service.py 146, 248-250, 301-303, 527-560  *)
(***************************************************************************)
\* strings are sequences of characters
Chars == {"#", ",", " ", "a"}

RECURSIVE Strings(_, _)
Strings(alphabet, n) ==
    IF n = 0 THEN {<<>>}
    ELSE {<<>>} \cup {<<c>> \o t : c \in alphabet, t \in Strings(alphabet, n - 1)}

\* a tag of the content source: its name ("" when it has none) and its
\* visibility ("none" when the field is absent)
TagNames == {<<>>, <<"a">>, <<"#", "a">>, <<"a", "#">>}
GhostTag == [name : TagNames, visibility : {"none", "public", "internal"}]

RECURSIVE TagLists(_)
TagLists(n) ==
    IF n = 0 THEN {<<>>}
    ELSE {<<>>} \cup {<<t>> \o l : t \in GhostTag, l \in TagLists(n - 1)}

StartsWithHash(t) == t # <<>> /\ t[1] = "#"

\* indexer.py 118: [tag.get("name", "") for tag in post.tags if tag.get("name")]
RECURSIVE ChunkTagNames(_)
ChunkTagNames(tags) ==
    IF tags = <<>> THEN <<>>
    ELSE (IF tags[1].name # <<>> THEN <<tags[1].name>> ELSE <<>>) \o ChunkTagNames(Tail(tags))

\* ",".join(names)
RECURSIVE Join(_)
Join(names) ==
    IF names = <<>> THEN <<>>
    ELSE IF Len(names) = 1 THEN names[1]
    ELSE names[1] \o <<",">> \o Join(Tail(names))

\* chroma_service.py 146: ",".join(chunk.tags) if chunk.tags else ""
StoredTagsOf(names) == IF names # <<>> THEN Join(names) ELSE <<>>

\* str.split(",")
RECURSIVE Split(_)
Split(str) ==
    IF \A i \in 1..Len(str) : str[i] # "," THEN <<str>>
    ELSE LET i == CHOOSE k \in 1..Len(str) :
                     str[k] = "," /\ \A j \in 1..(k - 1) : str[j] # ","
         IN <<SubSeq(str, 1, i - 1)>> \o Split(SubSeq(str, i + 1, Len(str)))

\* str.strip()
RECURSIVE Strip(_)
Strip(str) ==
    IF str # <<>> /\ str[1] = " " THEN Strip(Tail(str))
    ELSE IF str # <<>> /\ str[Len(str)] = " " THEN Strip(SubSeq(str, 1, Len(str) - 1))
    ELSE str

\* lines 549-556: _split_comma_separated on a string value
RECURSIVE StripNonBlank(_)
StripNonBlank(parts) ==
    IF parts = <<>> THEN <<>>
    ELSE (IF Strip(parts[1]) # <<>> THEN <<Strip(parts[1])>> ELSE <<>>)
         \o StripNonBlank(Tail(parts))

SplitCommaSeparated(value) ==
    IF value = <<>> THEN <<>> ELSE StripNonBlank(Split(value))

\* mutant: every tag is let through
FilterNoTagNames(tags) == tags

\* lines 558-560: _filter_public_tag_names
RECURSIVE FilterPublicTagNames(_)
FilterPublicTagNames(tags) ==
    IF tags = <<>> THEN <<>>
    ELSE (IF tags[1] # <<>> /\ ~StartsWithHash(tags[1]) THEN <<tags[1]>> ELSE <<>>)
         \o FilterPublicTagNames(Tail(tags))

\* lines 301-303: the tags list_posts gives a summary
ListPostsTags(value) ==
    FilterPublicTagNames(IF value # <<>> THEN Split(value) ELSE <<>>)

\* lines 248-250 and 527-529: the tags of get_post_markdown and of a
\* search result
SummaryTags(value) == FilterPublicTagNames(SplitCommaSeparated(value))

Readers == {"list_posts", "get_post_markdown", "search"}

\* the chunker builds the tag list of the item's chunks
BuildChunkTags ==
    /\ tagPc = "pulled"
    /\ chunkTags' = ChunkTagNames(ghostTags)
    /\ tagPc' = "chunked"
    /\ UNCHANGED <<ghostTags, storedTags, tagsOut>>
    /\ UNCHANGED <<idxVars, loopVars, srchVars, logVars, listVars, chunkVars, fetchVars>>

\* upsert_chunks writes the metadata record
UpsertTags ==
    /\ tagPc = "chunked"
    /\ storedTags' = StoredTagsOf(chunkTags)
    /\ tagPc' = "stored"
    /\ UNCHANGED <<ghostTags, chunkTags, tagsOut>>
    /\ UNCHANGED <<idxVars, loopVars, srchVars, logVars, listVars, chunkVars, fetchVars>>

ReadTags(reader, tags) ==
    /\ tagPc = "stored"
    /\ tagsOut[reader] = <<"unread">>
    /\ tagsOut' = [tagsOut EXCEPT ![reader] = <<"read", tags>>]
    /\ UNCHANGED <<ghostTags, chunkTags, storedTags, tagPc>>

\* list_posts assembles the summary of the record
ListPostsReadsTags ==
    /\ ReadTags("list_posts", ListPostsTags(storedTags))
    /\ UNCHANGED <<idxVars, loopVars, srchVars, logVars, listVars, chunkVars, fetchVars>>

\* get_post_markdown assembles the summary of the record
GetPostMarkdownReadsTags ==
    /\ ReadTags("get_post_markdown", SummaryTags(storedTags))
    /\ UNCHANGED <<idxVars, loopVars, srchVars, logVars, listVars, chunkVars, fetchVars>>

\* _build_search_result_from_metadata assembles the result of the record
SearchReadsTags ==
    /\ ReadTags("search", SummaryTags(storedTags))
    /\ UNCHANGED <<idxVars, loopVars, srchVars, logVars, listVars, chunkVars, fetchVars>>

\* no tags under way
InitTags ==
    /\ ghostTags = <<>>
    /\ chunkTags = <<>>
    /\ storedTags = <<>>
    /\ tagsOut = [r \in Readers |-> <<"unread">>]
    /\ tagPc = "none"

\* an item pulled from the content source with any tags, or a record found
\* in the store with any "tags" value
InitSomeTags ==
    /\ chunkTags = <<>>
    /\ tagsOut = [r \in Readers |-> <<"unread">>]
    /\ \/ /\ tagPc = "pulled"
          /\ ghostTags \in TagLists(MaxTags)
          /\ storedTags = <<>>
       \/ /\ tagPc = "stored"
          /\ ghostTags = <<>>
          /\ storedTags \in Strings(Chars, MaxStored)

NextTags ==
    \/ BuildChunkTags
    \/ UpsertTags
    \/ ListPostsReadsTags
    \/ GetPostMarkdownReadsTags
    \/ SearchReadsTags

(***************************************************************************)
(* list_posts (src/src/chroma_service.py 273-334)                          *)
(***************************************************************************)
\* the published_at of a stored record: absent, a string that is no ISO
\* date, or one of two dates
Dates == {"none", "bad", "d1", "d2"}

\* the order of the stored strings: ISO dates in time order, the other
\* string after them
DateKey(v) == IF v = "d1" THEN 1 ELSE IF v = "d2" THEN 2 ELSE 3

ListRow == [post_slug : {"a", "b", "c"}, published_at : Dates]

RECURSIVE RowLists(_)
RowLists(n) ==
    IF n = 0 THEN {<<>>}
    ELSE {<<>>} \cup {<<r>> \o l : r \in ListRow, l \in RowLists(n - 1)}

\* line 280: collection.get(limit=300, where={"content_type": "post"}), one
\* request, answered with the first rows of the collection up to the cap
GetFirstPage(rows) == SubSeq(rows, 1, Min(PageLimit, Len(rows)))

\* lines 285-309: the first row of every slug, in the order of the rows
RECURSIVE PostsMap(_, _)
PostsMap(rows, seen) ==
    IF rows = <<>> THEN <<>>
    ELSE IF rows[1].post_slug \in seen THEN PostsMap(Tail(rows), seen)
    ELSE <<rows[1]>> \o PostsMap(Tail(rows), seen \cup {rows[1].post_slug})

\* lines 311-314: list.sort compares the keys with <, and None is not
\* ordered against a string nor against None
SortRaises(posts, sortBy) ==
    /\ sortBy \in {"newest", "oldest"}
    /\ Len(posts) >= 2
    /\ \E i \in 1..Len(posts) : posts[i].published_at = "none"

\* list.sort(key=published_at, reverse=...): stable in both directions
RECURSIVE SortPosts(_, _)
SortPosts(posts, sortBy) ==
    IF posts = <<>> \/ sortBy \notin {"newest", "oldest"} THEN posts
    ELSE LET key(i) == IF sortBy = "newest" THEN 0 - DateKey(posts[i].published_at)
                       ELSE DateKey(posts[i].published_at)
             m == CHOOSE i \in 1..Len(posts) :
                     /\ \A j \in 1..Len(posts) : key(i) <= key(j)
                     /\ \A j \in 1..(i - 1) : key(j) > key(i)
         IN <<posts[m]>> \o SortPosts(SubSeq(posts, 1, m - 1) \o SubSeq(posts, m + 1, Len(posts)), sortBy)

\* line 316: posts[offset : offset + limit]
Slice(posts, offset, limit) == SubSeq(posts, offset + 1, Min(offset + limit, Len(posts)))

\* lines 325-327: datetime.fromisoformat(p["published_at"]) if it is there
BuildRaises(page) == \E i \in 1..Len(page) : page[i].published_at = "bad"

\* list_posts(limit, offset, sort_by): the slugs of the summaries, or the
\* exception that leaves the call
ListPosts(rows, limit, offset, sortBy) ==
    LET posts == PostsMap(GetFirstPage(rows), {}) IN
    IF GetFirstPage(rows) = <<>> THEN [status |-> "ok", slugs |-> <<>>]
    ELSE IF SortRaises(posts, sortBy) THEN [status |-> "TypeError", slugs |-> <<>>]
    ELSE LET page == Slice(SortPosts(posts, sortBy), offset, limit) IN
         IF BuildRaises(page) THEN [status |-> "ValueError", slugs |-> <<>>]
         ELSE [status |-> "ok", slugs |-> [i \in 1..Len(page) |-> page[i].post_slug]]

\* lines 533-540: _parse_datetime
ParseDatetime(v) == IF v \in {"none", "bad"} THEN "null" ELSE v

\* one list_posts call of a walk over successive offsets
ListPostsPage ==
    /\ walkState = "walking"
    /\ LET r == ListPosts(coll, listLimit, walkOffset, listSort) IN
          /\ walkState' = IF r.status # "ok" THEN "raised"
                          ELSE IF r.slugs = <<>> THEN "done" ELSE "walking"
          /\ walkOut' = walkOut \o r.slugs
          /\ walkOffset' = IF r.status = "ok" /\ r.slugs # <<>>
                           THEN walkOffset + listLimit ELSE walkOffset
    /\ UNCHANGED <<coll, listLimit, listSort, searchOut>>
    /\ UNCHANGED <<idxVars, loopVars, srchVars, logVars, tagVars, chunkVars, fetchVars>>

\* _build_search_result_from_metadata on a row of a search response
SearchBuildsResult ==
    /\ searchOut.status = "none"
    /\ \E i \in 1..Len(coll) :
          searchOut' = [status |-> "ok", post_slug |-> coll[i].post_slug,
                        published_at |-> ParseDatetime(coll[i].published_at)]
    /\ UNCHANGED <<coll, listLimit, listSort, walkOffset, walkOut, walkState>>
    /\ UNCHANGED <<idxVars, loopVars, srchVars, logVars, tagVars, chunkVars, fetchVars>>

\* no collection to list
InitList ==
    /\ coll = <<>>
    /\ listLimit = 1
    /\ listSort = "newest"
    /\ walkOffset = 0
    /\ walkOut = <<>>
    /\ walkState = "none"
    /\ searchOut = [status |-> "none", post_slug |-> "", published_at |-> "null"]

\* any collection, and a walk that is about to start
InitWalk ==
    /\ coll \in RowLists(MaxListRows)
    /\ listLimit \in 1..MaxPage
    /\ listSort \in {"newest", "oldest"}
    /\ walkOffset = 0
    /\ walkOut = <<>>
    /\ walkState = "walking"
    /\ searchOut = [status |-> "none", post_slug |-> "", published_at |-> "null"]

NextList ==
    \/ ListPostsPage
    \/ SearchBuildsResult

(***************************************************************************)
(* _chunk_by_paragraphs and _build_chunks_and_hash step by step            *)
(* (src/src/indexer.py 56-123)                                             *)
(***************************************************************************)
\* a text is a sequence of tokens: the characters of a title or of a
\* subtitle, the words of a paragraph
ParagraphWords == <<"w1", "w2", "w3", "w4", "w5", "w6", "w7", "w8">>

TitleTexts == {<<>>, <<" ">>, <<"t">>}

SubtitleTexts == {<<>>, <<" ">>, <<"s">>}

\* a post as the chunker reads it: its title, its custom_excerpt or
\* meta_description, and a body of one paragraph of `words` words (0: the
\* post has neither html nor plaintext)
ChunkerPost == [title : TitleTexts, subtitle : SubtitleTexts, words : 0..MaxWords]

Max(a, b) == IF a > b THEN a ELSE b

\* mutant: the step is not kept above zero
WindowStepNoFloor(size, overlap) == size - overlap

\* line 66: step = max(self.chunk_size - self.chunk_overlap, 1)
WindowStep(size, overlap) == Max(size - overlap, 1)

\* line 68-69: " ".join(words[i : i + self.chunk_size]) of a paragraph of n words
Window(n, i, size) == SubSeq(ParagraphWords, i + 1, Min(i + size, n))

\* lines 83-93: chunks_text
ChunksTextOf(post, paragraphChunks) ==
    (IF post.title # <<>> THEN <<Strip(post.title)>> ELSE <<>>)
    \o (IF post.subtitle # <<>> THEN <<Strip(post.subtitle)>> ELSE <<>>)
    \o paragraphChunks

\* lines 101-121: the loop over enumerate(chunks_text), from position i on
RECURSIVE PostChunksFrom(_, _)
PostChunksFrom(texts, i) ==
    IF i > Len(texts) THEN <<>>
    ELSE (IF Strip(texts[i]) = <<>>
          THEN <<>>
          ELSE <<[chunk_text |-> texts[i], chunk_index |-> i - 1,
                  total_chunks |-> Len(texts)]>>)
         \o PostChunksFrom(texts, i + 1)

\* lines 61-64: a post without body, or a paragraph of at most chunk_size
\* words, which is one chunk
ChunkShortParagraph ==
    /\ cPc = "start"
    /\ cPost.words <= cSize
    /\ cPara' = IF cPost.words = 0 THEN <<>> ELSE <<Window(cPost.words, 0, cPost.words)>>
    /\ cPc' = "assemble"
    /\ UNCHANGED <<cPost, cSize, cOverlap, cI, cChunks, cHash>>
    /\ UNCHANGED <<idxVars, loopVars, srchVars, logVars, tagVars, listVars, fetchVars>>

\* lines 66-67: a longer paragraph enters the loop over range(0, len(words), step)
WindowLoopBegins ==
    /\ cPc = "start"
    /\ cPost.words > cSize
    /\ cI' = 0
    /\ cPc' = IF WindowStep(cSize, cOverlap) = 0 THEN "raised" ELSE "loop"
    /\ UNCHANGED <<cPost, cSize, cOverlap, cPara, cChunks, cHash>>
    /\ UNCHANGED <<idxVars, loopVars, srchVars, logVars, tagVars, listVars, fetchVars>>

\* the range of line 67 has a next value
InRange == WindowStep(cSize, cOverlap) > 0 /\ cI < cPost.words

\* lines 68-69: one window
NextWindow ==
    /\ cPc = "loop"
    /\ InRange
    /\ cPara' = Append(cPara, Window(cPost.words, cI, cSize))
    /\ cI' = cI + WindowStep(cSize, cOverlap)
    /\ UNCHANGED <<cPost, cSize, cOverlap, cPc, cChunks, cHash>>
    /\ UNCHANGED <<idxVars, loopVars, srchVars, logVars, tagVars, listVars, fetchVars>>

\* the range is exhausted
WindowLoopEnds ==
    /\ cPc = "loop"
    /\ ~InRange
    /\ cPc' = "assemble"
    /\ UNCHANGED <<cPost, cSize, cOverlap, cI, cPara, cChunks, cHash>>
    /\ UNCHANGED <<idxVars, loopVars, srchVars, logVars, tagVars, listVars, fetchVars>>

\* lines 83-123: chunks_text, the hash (the text itself, <<>> for None),
\* the chunks
BuildChunksAndHash ==
    /\ cPc = "assemble"
    /\ cChunks' = PostChunksFrom(ChunksTextOf(cPost, cPara), 1)
    /\ cHash' = ChunksTextOf(cPost, cPara)
    /\ cPc' = "done"
    /\ UNCHANGED <<cPost, cSize, cOverlap, cI, cPara>>
    /\ UNCHANGED <<idxVars, loopVars, srchVars, logVars, tagVars, listVars, fetchVars>>

\* no post under way
InitChunker ==
    /\ cPost = [title |-> <<>>, subtitle |-> <<>>, words |-> 0]
    /\ cSize = 1
    /\ cOverlap = 0
    /\ cPc = "done"
    /\ cI = 0
    /\ cPara = <<>>
    /\ cChunks = <<>>
    /\ cHash = <<>>

\* one call of _build_chunks_and_hash: any post, any settings with
\* chunk_size >= 1 and chunk_overlap >= 0
InitChunking ==
    /\ cPost \in ChunkerPost
    /\ cSize \in 1..MaxChunkSize
    /\ cOverlap \in 0..MaxOverlap
    /\ cPc = "start"
    /\ cI = 0
    /\ cPara = <<>>
    /\ cChunks = <<>>
    /\ cHash = <<>>

NextChunker ==
    \/ ChunkShortParagraph
    \/ WindowLoopBegins
    \/ NextWindow
    \/ WindowLoopEnds
    \/ BuildChunksAndHash

(***************************************************************************)
(* fetch and get_post_markdown                                             *)
(* (src/src/mcp_server.py 240-312, src/src/chroma_service.py 116-123,      *)
(* 191-271)                                                                *)
(***************************************************************************)
\* indexer.py 110: the post_url of a chunk, post.url or the default built
\* from the slug
UrlOfSlug(slug) == IF slug = "a" THEN "https://blog/a/" ELSE "https://blog/b/"

\* a URL that no chunk carries
OtherUrl(slug) == IF slug = "a" THEN "https://blog/a/?x" ELSE "https://blog/b/?x"

\* the value of a metadata field of a row
FieldOf(r, field) ==
    CASE field = "post_slug" -> r.post_slug
      [] field = "content_type" -> r.content_type
      [] field = "post_url" -> UrlOfSlug(r.post_slug)

\* _build_where: the filters whose value is not None ("none"), as a set of
\* <<field, value>>; one filter or an $and of several
BuildWhere(filters) == {f \in filters : f[2] # "none"}

\* the rows a where-clause matches
MatchingWhere(st, where) == {r \in st : \A f \in where : FieldOf(r, f[1]) = f[2]}

\* collection.get(where=..., limit=PageLimit)
GetWhere(st, where) ==
    {g \in SUBSET MatchingWhere(st, where) :
        Cardinality(g) = Min(PageLimit, Cardinality(MatchingWhere(st, where)))}

\* line 225: chunks.sort(key=chunk_index), a stable sort of the rows in the
\* order the store returned them: rows of equal chunk_index in any order
RECURSIVE SortedByIndex(_)
SortedByIndex(rows) ==
    IF rows = {} THEN {<<>>}
    ELSE LET firsts == {r \in rows : \A q \in rows : r.chunk_index <= q.chunk_index}
         IN UNION {{<<r>> \o s : s \in SortedByIndex(rows \ {r})} : r \in firsts}

NoMarkdown == [status |-> "none", summary |-> <<>>, markdown |-> <<>>, chunks |-> <<>>]

\* lines 207-254: (None, None) without rows; else the summary from the
\* first chunk's metadata and the markdown from every chunk's text (the
\* texts of the model have no outer blanks for strip() to remove)
PostMarkdown(slug, chunks) ==
    IF chunks = <<>>
    THEN [status |-> "not_found", summary |-> <<>>, markdown |-> <<>>, chunks |-> <<>>]
    ELSE [status |-> "found",
          summary |-> <<[id |-> chunks[1].post_id, slug |-> slug,
                         content_type |-> chunks[1].content_type,
                         updated_at |-> chunks[1].updated_at]>>,
          markdown |-> [i \in 1..Len(chunks) |-> chunks[i].chunk_text],
          chunks |-> chunks]

\* the calls: fetch and get_post (content_url for an http(s) id, no content
\* type), get_post_by_slug (neither), get_post_markdown_by_id (content type)
MarkdownRequests ==
    [slug : Slugs, content_url : {"none", "own", "other"}, content_type : {"none"}]
    \cup [slug : Slugs, content_url : {"none"}, content_type : {"post", "page"}]

ContentUrl(r) ==
    IF r.content_url = "own" THEN UrlOfSlug(r.slug)
    ELSE IF r.content_url = "other" THEN OtherUrl(r.slug)
    ELSE "none"

\* get_post_markdown, lines 198-254
GetPostMarkdown ==
    /\ fOut.status = "none"
    /\ \E byUrl \in (IF fReq.content_url # "none"
                     THEN GetWhere(store, BuildWhere({<<"post_url", ContentUrl(fReq)>>,
                                                      <<"content_type", fReq.content_type>>}))
                     ELSE {{}}) :
          \E bySlug \in GetWhere(store, BuildWhere({<<"post_slug", fReq.slug>>,
                                                    <<"content_type", fReq.content_type>>})) :
             \E chunks \in SortedByIndex(IF byUrl # {} THEN byUrl ELSE bySlug) :
                fOut' = PostMarkdown(fReq.slug, chunks)
    /\ UNCHANGED fReq
    /\ UNCHANGED <<idxVars, loopVars, srchVars, logVars, tagVars, listVars, chunkVars>>

\* no lookup under way
InitFetch ==
    /\ fReq = [slug |-> "a", content_url |-> "none", content_type |-> "none"]
    /\ fOut = [status |-> "idle", summary |-> <<>>, markdown |-> <<>>, chunks |-> <<>>]

\* one lookup
InitLookup ==
    /\ fReq \in MarkdownRequests
    /\ fOut = NoMarkdown

\* the content sources of a lookup, every item with the same updated_at
RECURSIVE RemotesOver(_)
RemotesOver(ids) ==
    IF ids = {} THEN {{}}
    ELSE LET id == CHOOSE i \in ids : TRUE
         IN {r \cup c : r \in RemotesOver(ids \ {id}),
                        c \in {{}} \cup {{p} : p \in {q \in GhostPost :
                                                      q.id = id /\ q.updated_at = NoTime}}}

\* the store after a complete cycle over a content source
StoreOf(r) == UNION {Range(BuildChunks(x)) : x \in r}

\* a store as a cycle left it, all else of the indexer at rest
InitIndexed ==
    /\ remote \in {r \in RemotesOver(Ids) : RemoteOk(r)}
    /\ store = StoreOf(remote)
    /\ ipc = "idle"
    /\ items = <<>>
    /\ indexed = <<>>
    /\ pos = 1
    /\ newItems = <<>>
    /\ updatedItems = <<>>
    /\ currentKeys = {}
    /\ removed = {}
    /\ writes = 0
    /\ deleteCalls = {}
    /\ hist = <<>>
    /\ cycles = 0
    /\ edits = 0

NextFetch == GetPostMarkdown

Init == InitIndex /\ InitLoop /\ InitSearch /\ InitLog /\ InitTags /\ InitList /\ InitChunker /\ InitFetch

Next ==
    \/ ChangeRemote
    \/ BeginCycle
    \/ ClassifyItem
    \/ ClassifyDone
    \/ IndexPostDelete
    \/ IndexPostUpsert
    \/ IndexDone
    \/ RemoveDeleted
    \/ FinishCycle
    \/ CycleFails

Spec == Init /\ [][Next]_vars

\* the cycles of a content source and a store that never fail
NextNoFailure ==
    \/ ChangeRemote
    \/ BeginCycle
    \/ ClassifyItem
    \/ ClassifyDone
    \/ IndexPostDelete
    \/ IndexPostUpsert
    \/ IndexDone
    \/ RemoveDeleted
    \/ FinishCycle

SpecNoFailure == Init /\ [][NextNoFailure]_vars

\* a post and a page of the same slug, each indexed by an earlier cycle
SharedSlugPost == [id |-> 1, slug |-> "a", title |-> "t", body |-> <<"p", "q">>, updated_at |-> 1]
SharedSlugPage == [id |-> 2, slug |-> "a", title |-> "t", body |-> <<"p">>, updated_at |-> 1]

InitSharedSlug ==
    /\ remote = {SharedSlugPost, SharedSlugPage}
    /\ store = UpsertChunks(UpsertChunks({}, BuildChunks(SharedSlugPost)),
                            BuildChunks(SharedSlugPage))
    /\ ipc = "idle"
    /\ items = <<>>
    /\ indexed = <<>>
    /\ pos = 1
    /\ newItems = <<>>
    /\ updatedItems = <<>>
    /\ currentKeys = {}
    /\ removed = {}
    /\ writes = 0
    /\ deleteCalls = {}
    /\ hist = <<>>
    /\ cycles = 0
    /\ edits = 0
    /\ InitLoop /\ InitSearch /\ InitLog /\ InitTags /\ InitList /\ InitChunker /\ InitFetch

SpecSharedSlug == InitSharedSlug /\ [][NextNoFailure]_vars

\* a post of four chunks, more than one get of delete_post returns, indexed
\* by an earlier cycle
LongPost ==
    [id |-> 1, slug |-> "a", title |-> "t", body |-> <<"p", "q", "r">>, updated_at |-> 1]

InitLongPost ==
    /\ remote = {LongPost}
    /\ store = UpsertChunks({}, BuildChunks(LongPost))
    /\ ipc = "idle"
    /\ items = <<>>
    /\ indexed = <<>>
    /\ pos = 1
    /\ newItems = <<>>
    /\ updatedItems = <<>>
    /\ currentKeys = {}
    /\ removed = {}
    /\ writes = 0
    /\ deleteCalls = {}
    /\ hist = <<>>
    /\ cycles = 0
    /\ edits = 0
    /\ InitLoop /\ InitSearch /\ InitLog /\ InitTags /\ InitList /\ InitChunker /\ InitFetch

SpecLongPost == InitLongPost /\ [][NextNoFailure]_vars

\* everything else at rest, and one call of the chunker
InitOneChunking ==
    InitIndex /\ InitLoop /\ InitSearch /\ InitLog /\ InitTags /\ InitList /\ InitChunking /\ InitFetch

SpecChunker == InitOneChunking /\ [][NextChunker]_vars

\* the chunker runs to its end: each of its steps is taken when it can be
SpecChunkerRuns == SpecChunker /\ WF_vars(NextChunker)

\* everything else at rest, and one lookup in an indexed store
InitOneLookup ==
    InitIndexed /\ InitLoop /\ InitSearch /\ InitLog /\ InitTags /\ InitList /\ InitChunker /\ InitLookup

SpecFetch == InitOneLookup /\ [][NextFetch]_vars

SpecLoop == Init /\ [][NextLoop]_vars

\* the indexer and the loop at rest, and one call of the search service
InitOneSearch == InitIndex /\ InitLoop /\ InitRequest /\ InitLog /\ InitTags /\ InitList /\ InitChunker /\ InitFetch

SpecSearch == InitOneSearch /\ [][NextSearch]_vars

SpecLog == Init /\ [][NextLog]_vars

\* everything else at rest, and the tags of one item or one record
InitOneTagList == InitIndex /\ InitLoop /\ InitSearch /\ InitLog /\ InitSomeTags /\ InitList /\ InitChunker /\ InitFetch

SpecTags == InitOneTagList /\ [][NextTags]_vars

\* everything else at rest, and one collection to list and to search
InitOneWalk == InitIndex /\ InitLoop /\ InitSearch /\ InitLog /\ InitTags /\ InitWalk /\ InitChunker /\ InitFetch

SpecList == InitOneWalk /\ [][NextList]_vars

(***************************************************************************)
(* Claims about index_all_posts                                            *)
(***************************************************************************)
\* the latest cycle ran to its end without a failure
CycleComplete == ipc = "idle" /\ hist # <<>> /\ hist[1].complete

\* C1: when two consecutive failure-free cycles pulled the same set of posts
\* and pages (in any order), the second one issued no collection.upsert and
\* no collection.delete.
C1_SecondRunIssuesNoWrites ==
    (/\ Len(hist) = 2
     /\ hist[1].complete
     /\ hist[2].complete
     /\ hist[1].remote = hist[2].remote)
    => hist[1].writes = 0

\* C2: when a cycle completes, delete_post was called for every snapshot key
\* that has no item in the pull, and no chunk of such a key is left in the
\* store, however many chunks the key had.
C2_RemovedKeysLeaveNoChunks ==
    CycleComplete =>
        \A key \in DOMAIN indexed \ currentKeys :
            key \in deleteCalls /\ Matching(store, key) = {}

\* the part of C2 that does not depend on the number of chunks
RemovedKeysAreDeleted ==
    CycleComplete => (DOMAIN indexed \ currentKeys) \subseteq deleteCalls

(***************************************************************************)
(* Claims about the background loop                                        *)
(***************************************************************************)
\* C3: while a cycle is at one of its content-source, store or embedding
\* calls and a search request waits, the server task can take the request
\* up (or is already serving one): the search does not wait for the cycle.
C3_SearchServedDuringCycle ==
    (bg \in InCycle /\ served < arrived)
        => (running = "server" \/ ENABLED ServeSearchBegin)

\* the part of C3 that the content-source awaits do provide
SearchServedDuringPull ==
    (bg \in {"get_all_posts", "get_all_pages"} /\ served < arrived)
        => (running = "server" \/ ENABLED ServeSearchBegin)

\* C4: a cycle that raised an exception other than a cancellation is logged
\* and followed by the sleep, the sleep is followed by the start of another
\* cycle, and the task ends only if it was cancelled.
C4_ErrorIsLoggedAndLoopGoesOn ==
    /\ [](bg = "cancelled" => cancelRequested)
    /\ [][(bg = "aclose" /\ exc = "Exception" /\ ~cancelRequested /\ bg' # bg)
            => (bg' = "sleep" /\ nLogged' = nLogged + 1 /\ nSleeps' = nSleeps + 1)]_vars
    /\ [][(bg = "sleep" /\ ~cancelRequested /\ bg' # bg) => bg' = "start"]_vars
    /\ [][(bg = "start" /\ bg' # bg) => (bg' = "get_all_posts" /\ nCycles' = nCycles + 1)]_vars

\* a cycle raised, was logged, and the next cycle has started
C4_Witness == nLogged >= 1 /\ nCycles >= 2 /\ bg = "get_all_posts" /\ ~cancelRequested

\* C5: cycles and sleeps alternate one to one, a cancellation delivered at
\* an await of the cycle or of the sleep ends the task without the generic
\* handler logging it, and a cancelled task starts no cycle and no sleep.
C5_OneCycleOneSleepUntilCancelled ==
    /\ [](bg \in InCycle => nCycles = nSleeps + 1)
    /\ [](bg \in {"start", "sleep"} => nCycles = nSleeps)
    /\ [][(bg \in Awaited /\ cancelRequested /\ bg' # bg)
            => (bg' = "cancelled" /\ nLogged' = nLogged
                /\ nCycles' = nCycles /\ nSleeps' = nSleeps)]_vars
    /\ [][bg = "cancelled"
            => (bg' = "cancelled" /\ nCycles' = nCycles /\ nSleeps' = nSleeps)]_vars

\* the task was cancelled at an await after a full cycle and sleep
C5_Witness == bg = "cancelled" /\ nCycles >= 2 /\ nSleeps >= 1

(***************************************************************************)
(* Search                                                                  *)
(***************************************************************************)
\* a ranking was built: _hybrid_rrf_search got past its weight check
Ranked == req.op \in {"search", "hybrid"} /\ res.status = "ok"

\* the fused score of the specification, scaled as the model's scores are:
\* the sum over the active channels of weight / (k + rank), 0 for a channel
\* whose candidate list does not hold the item
FusedScore(d) ==
    (IF res.dw > 0 /\ RankIn(req.dl, d) # 0
     THEN res.dw * (ScoreScale \div (HybridRrfK + RankIn(req.dl, d))) ELSE 0)
    + (IF res.sw > 0 /\ RankIn(req.sl, d) # 0
       THEN res.sw * (ScoreScale \div (HybridRrfK + RankIn(req.sl, d))) ELSE 0)

InActiveList(d) ==
    \/ res.dw > 0 /\ RankIn(req.dl, d) # 0
    \/ res.sw > 0 /\ RankIn(req.sl, d) # 0

\* C6: the ranking of _hybrid_rrf_search is in descending order of fused
\* score; an item that is in only one of the active channels' candidate
\* lists is still in the ranking; for dense ranks A:1, B:2 and sparse ranks
\* B:1, C:2 with equal weights and k = 42 the ranking is B, A, C.
C6_RankingIsDescendingFusedScore ==
    Ranked =>
        /\ \A i, j \in 1..Len(res.ranking) :
              i < j => FusedScore(res.ranking[i]) >= FusedScore(res.ranking[j])
        /\ \A d \in Docs : InActiveList(d) => \E i \in 1..Len(res.ranking) : res.ranking[i] = d
        /\ (res.dw > 0 /\ res.sw > 0 /\ req.dl = <<"A", "B">> /\ req.sl = <<"B", "C">>)
              => res.ranking = <<"B", "A", "C">>

\* the rows the ranking does hold are in descending order of fused score
RankingIsDescending ==
    Ranked => \A i, j \in 1..Len(res.ranking) :
                 i < j => FusedScore(res.ranking[i]) >= FusedScore(res.ranking[j])

\* C7: with distinct_results the results hold at most one result per
\* non-empty post_url, and the result kept for a URL is the first, hence the
\* best-scored, of the hits with that URL in the store's response.
C7_DistinctKeepsBestPerUrl ==
    (req.distinct /\ res.status = "ok") =>
        /\ \A i, j \in 1..Len(res.results) :
              (i # j /\ UrlOf(res.results[i]) # "")
                  => UrlOf(res.results[i]) # UrlOf(res.results[j])
        /\ \A i \in 1..Len(res.results) : \A k \in 1..Len(res.response) :
              (/\ UrlOf(res.results[i]) # ""
               /\ HasMetadata(res.response[k])
               /\ UrlOf(res.response[k]) = UrlOf(res.results[i]))
                  => /\ RankIn(res.response, res.results[i]) <= k
                     /\ Ranked => FusedScore(res.results[i]) >= FusedScore(res.response[k])

C7_Witness ==
    /\ req.distinct
    /\ res.status = "ok"
    /\ Len(res.results) >= 2
    /\ \E k, l \in 1..Len(res.response) :
          /\ k < l
          /\ UrlOf(res.response[k]) # ""
          /\ UrlOf(res.response[k]) = UrlOf(res.response[l])
          /\ res.results[1] = res.response[k]

\* C8: when the dense embedding call raises and the sparse embedding is
\* produced, search does not fail: it searches the store once with the
\* sparse channel alone and returns rows of the sparse candidate list in the
\* order of their sparse ranks.
C8_DenseFailureFallsBackToSparse ==
    (/\ req.op = "search" /\ res.status # "none"
     /\ req.dense = "raised" /\ req.sparse = "vec" /\ SparseWeightX2 > 0) =>
        /\ res.status = "ok"
        /\ res.searches = 1
        /\ res.dw = 0 /\ res.sw = SparseWeightX2
        /\ \A i \in 1..Len(res.results) : RankIn(req.sl, res.results[i]) # 0
        /\ \A i, j \in 1..Len(res.results) :
              i < j => RankIn(req.sl, res.results[i]) < RankIn(req.sl, res.results[j])
        /\ (~req.distinct /\ req.limit >= 1) => res.results = Prefix(req.sl, req.limit)

C8_Witness ==
    /\ req.op = "search" /\ req.dense = "raised" /\ req.sparse = "vec"
    /\ res.status = "ok"
    /\ Len(res.results) >= 2

\* C9: a channel's weight is the configured one when its embedding was
\* produced and 0 otherwise; when both are 0 the call ends in an error and
\* no search is sent to the store.
C9_EffectiveWeights ==
    (req.op \in {"search", "hybrid"} /\ res.status # "none") =>
        /\ res.status = "ok" =>
              /\ res.dw = (IF req.dense = "vec" THEN DenseWeightX2 ELSE 0)
              /\ res.sw = (IF req.sparse = "vec" THEN SparseWeightX2 ELSE 0)
        /\ (req.dense # "vec" /\ req.sparse # "vec") =>
              /\ res.status \in {"NotImplementedError", "EmbeddingError"}
              /\ res.searches = 0

C9_Witness ==
    /\ req.op = "hybrid" /\ req.dense = "none" /\ req.sparse = "none"
    /\ res.status = "NotImplementedError"
    /\ res.searches = 0

\* C10: for every limit >= 0 and every response of the store, the results
\* hold at most limit entries.
C10_AtMostLimitResults ==
    res.status = "ok" => Len(res.results) <= req.limit

\* the results hold at most limit entries when limit is at least 1
AtMostLimitResultsFromOne ==
    (res.status = "ok" /\ req.limit >= 1) => Len(res.results) <= req.limit

(***************************************************************************)
(* Claims about the query log                                              *)
(***************************************************************************)
\* C11: a search call returns its results at once: every call that handed
\* its query to the log has returned, none has ended in an exception of
\* the log, whether the log task has not run yet, is in its thread, has
\* failed or has written.
C11_SearchReturnsWhateverTheLogDoes ==
    /\ returns = calls
    /\ logRaised = 0
    /\ \A i \in 1..Len(tasks) : tasks[i].state # "failed"

C11_Witness ==
    /\ returns = 3
    /\ \E i, j, k \in 1..Len(tasks) :
          /\ tasks[i].state = "created"
          /\ tasks[j].outcome = "ctor_raised"
          /\ tasks[k].outcome = "upsert_raised"

\* C12: the query log only grows: a step never changes or removes an entry,
\* and a log write that succeeds adds exactly one entry, under an id that
\* was not in the log, also when the same query is logged twice within the
\* same second.
C12_QueryLogIsAppendOnly ==
    [][/\ \A id \in DOMAIN qlog : id \in DOMAIN qlog' /\ qlog'[id] = qlog[id]
       /\ (\E i \in 1..Len(tasks) : tasks[i].state = "in_thread" /\ Wrote(tasks'[i].outcome))
             => Cardinality(DOMAIN qlog') = Cardinality(DOMAIN qlog) + 1]_vars

\* two entries of the same query text and the same second
C12_Witness ==
    \E a, b \in DOMAIN qlog :
        /\ a # b
        /\ qlog[a].document = qlog[b].document
        /\ qlog[a].query_ts = qlog[b].query_ts

(***************************************************************************)
(* Claims about tags                                                       *)
(***************************************************************************)
\* C13: no tag list returned by list_posts, get_post_markdown or search
\* holds a tag whose name starts with '#', whatever the stored record holds.
C13_NoHashTagIsReturned ==
    \A r \in Readers :
        tagsOut[r][1] = "read" =>
            \A i \in 1..Len(tagsOut[r][2]) : ~StartsWithHash(tagsOut[r][2][i])

\* the stored value holds '#' at the start and after a comma, and every
\* read path has read it
C13_Witness ==
    /\ \A r \in Readers : tagsOut[r][1] = "read"
    /\ Len(storedTags) = 4
    /\ storedTags[1] = "#" /\ storedTags[2] = "a" /\ storedTags[3] = "," /\ storedTags[4] = "#"

\* the claim's test of a tag of the content source
IsPublicTag(t) ==
    /\ ~StartsWithHash(t.name)
    /\ t.visibility \in {"none", "public"}

\* C14: the tag list of a chunk, and the "tags" value written with it,
\* hold the names of the item's public tags only: a tag whose name starts
\* with '#' or whose visibility is set and is not "public" is dropped.
C14_ChunkTagsArePublic ==
    (tagPc \in {"chunked", "stored"} /\ ghostTags # <<>>) =>
        /\ chunkTags = ChunkTagNames(SelectSeq(ghostTags, IsPublicTag))
        /\ tagPc = "stored" => storedTags = StoredTagsOf(ChunkTagNames(SelectSeq(ghostTags, IsPublicTag)))

(***************************************************************************)
(* Claims about list_posts                                                 *)
(***************************************************************************)
\* C15: no list_posts call and no search result ends in an exception
\* because a stored record has no published_at or one that cannot be
\* parsed.
C15_BadDatesAreTolerated ==
    /\ walkState # "raised"
    /\ searchOut.status \in {"none", "ok"}

\* building a search result tolerates them
SearchToleratesBadDates == searchOut.status \in {"none", "ok"}

\* C16: a walk of list_posts over successive offsets that has come to its
\* end was given every slug of the collection exactly once.
C16_WalkReturnsEveryPostOnce ==
    walkState = "done" =>
        /\ Range(walkOut) = {coll[i].post_slug : i \in 1..Len(coll)}
        /\ \A i, j \in 1..Len(walkOut) : walkOut[i] = walkOut[j] => i = j

\* the walk is complete when the collection fits into one request
WalkCompleteWithinOnePage ==
    (walkState = "done" /\ Len(coll) <= PageLimit) =>
        /\ Range(walkOut) = {coll[i].post_slug : i \in 1..Len(coll)}
        /\ \A i, j \in 1..Len(walkOut) : walkOut[i] = walkOut[j] => i = j

(***************************************************************************)
(* Claims about keys, the chunker and the classification                   *)
(***************************************************************************)
\* the stored chunks of the post or of the page of a slug
RowsOf(st, slug, type) == {r \in st : r.post_slug = slug /\ r.content_type = type}

\* the keys the next store call of the cycle is for
HandledKeys ==
    IF ipc = "classify" /\ pos <= Len(items) THEN {KeyOf(items[pos])}
    ELSE IF ipc \in {"index", "upsert"} /\ pos <= Len(WorkList) THEN {KeyOf(WorkList[pos])}
    ELSE IF ipc = "remove" THEN ToRemove
    ELSE {}

OtherType(type) == IF type = "post" THEN "page" ELSE "post"

\* C17: a post and a page of the same slug are two index entries: a step
\* of index_all_posts that handles one of them (classifies it, indexes it
\* or removes it) leaves the stored chunks of the other as they are, and
\* no step changes the stored chunks of both.
C17_PostAndPageOfASlugAreApart ==
    [][\A slug \in Slugs :
          /\ \A type \in {"post", "page"} :
                HandledKeys = {<<slug, type>>}
                    => RowsOf(store', slug, OtherType(type)) = RowsOf(store, slug, OtherType(type))
          /\ \/ RowsOf(store', slug, "post") = RowsOf(store, slug, "post")
             \/ RowsOf(store', slug, "page") = RowsOf(store, slug, "page")]_vars

\* the page of a slug was removed from the index and the post of the same
\* slug, which the cycle did not touch, has its chunks
C17_Witness ==
    \E slug \in Slugs :
        /\ <<slug, "page">> \in removed
        /\ RowsOf(store, slug, "page") = {}
        /\ <<slug, "post">> \notin deleteCalls
        /\ RowsOf(store, slug, "post") # {}

\* C18: an item without a body yields no chunk and a null hash; it is not
\* indexed, and its key is deleted only if the snapshot holds it.
C18_NoBodyYieldsNoChunks ==
    \A item \in Range(items) :
        item.body = <<>> =>
            /\ BuildChunks(item) = <<>>
            /\ ContentHash(item) = <<>>
            /\ item \notin Range(WorkList)
            /\ (ipc # "idle" /\ KeyOf(item) \in deleteCalls) => KeyOf(item) \in DOMAIN indexed

\* an item without title and body yields no chunk; it is not indexed, and
\* its key is deleted only if the snapshot holds it
NoTextYieldsNoChunks ==
    \A item \in Range(items) :
        (item.body = <<>> /\ item.title = "") =>
            /\ BuildChunks(item) = <<>>
            /\ ContentHash(item) = <<>>
            /\ item \notin Range(WorkList)
            /\ (ipc # "idle" /\ KeyOf(item) \in deleteCalls) => KeyOf(item) \in DOMAIN indexed

\* C19: no chunk of an item has the item's title as its chunk_text.
C19_TitleIsNoChunkText ==
    \A item \in Range(items) :
        item.title # "" =>
            \A i \in 1..Len(BuildChunks(item)) : BuildChunks(item)[i].chunk_text # item.title

\* the condition of the specification for indexing an item again
MustIndex(item) ==
    \/ KeyOf(item) \notin DOMAIN indexed
    \/ ContentHash(item) # indexed[KeyOf(item)].content_hash
    \/ /\ item.updated_at # NoTime
       /\ indexed[KeyOf(item)].updated_at # NoTime
       /\ item.updated_at > indexed[KeyOf(item)].updated_at

\* C20: when the index loop of a cycle is over, index_post was called for
\* exactly the items with chunks whose key is not in the snapshot, whose
\* hash differs from the snapshot's, or whose updated_at is later than the
\* snapshot's; no step of the cycle deletes or upserts for any other item
\* with chunks.
C20_IndexedIffNewOrChanged ==
    /\ [](ipc = "remove" =>
            \A item \in Range(items) :
                BuildChunks(item) # <<>> =>
                    (KeyOf(item) \in deleteCalls <=> MustIndex(item)))
    /\ [][ipc # "idle" =>
            \A item \in Range(items) :
                (BuildChunks(item) # <<>> /\ ~MustIndex(item)) =>
                    /\ RowsOf(store', item.slug, ContentTypeOf(item.id))
                         = RowsOf(store, item.slug, ContentTypeOf(item.id))
                    /\ KeyOf(item) \notin deleteCalls']_vars

\* an item whose hash is the snapshot's was indexed again for its later
\* updated_at
C20_Witness ==
    /\ ipc = "remove"
    /\ \E item \in Range(items) :
          /\ KeyOf(item) \in DOMAIN indexed
          /\ ContentHash(item) = indexed[KeyOf(item)].content_hash
          /\ BuildChunks(item) # <<>>
          /\ KeyOf(item) \in deleteCalls

(***************************************************************************)
(* Claims about index_post                                                 *)
(***************************************************************************)
\* C21: when index_post has upserted the chunks of an item, the chunks the
\* store holds under the item's slug and content type are exactly the
\* chunks just built: no chunk of an earlier version is left, whatever the
\* numbers of old and new chunks.
C21_IndexPostReplacesChunks ==
    [][(ipc = "upsert" /\ ipc' = "index") =>
          Matching(store', KeyOf(WorkList[pos])) = Range(BuildChunks(WorkList[pos]))]_vars

\* the part of C21 that does not depend on the number of old chunks: the
\* chunks just built are all stored under the key
IndexPostStoresNewChunks ==
    [][(ipc = "upsert" /\ ipc' = "index") =>
          Range(BuildChunks(WorkList[pos])) \subseteq Matching(store', KeyOf(WorkList[pos]))]_vars

\* C22: the delete of index_post comes before its upsert, and at no time
\* does the store hold, under one slug and content type, chunks of two
\* versions of the item (two different content hashes).
C22_NoTwoVersionsUnderOneKey ==
    /\ [][ipc' = "upsert" => (ipc = "index" /\ KeyOf(WorkList[pos]) \in deleteCalls')]_vars
    /\ [](\A r1, r2 \in store :
            (r1.post_slug = r2.post_slug /\ r1.content_type = r2.content_type)
                => r1.content_hash = r2.content_hash)

\* the part of C22 about the order of the two calls
DeleteComesBeforeUpsert ==
    [][ipc' = "upsert" => (ipc = "index" /\ KeyOf(WorkList[pos]) \in deleteCalls')]_vars

\* C23: when the delete or the upsert of one item of the index loop fails,
\* the cycle goes on with the next item: when the cycle has ended,
\* index_post was called for every other item of the work list and
\* delete_post for every snapshot key that has no item in the pull; when a
\* delete of the removal pass fails, the other keys are still removed.
C23_FailedItemDoesNotEndCycle ==
    (ipc = "idle" /\ hist # <<>> /\ ~hist[1].complete)
    => /\ hist[1].at \in {"index", "upsert"}
            => /\ \A i \in 1..Len(WorkList) :
                     i # pos => KeyOf(WorkList[i]) \in deleteCalls
               /\ ToRemove = {}
       /\ hist[1].at = "remove" => Cardinality(ToRemove) <= 1

\* a cycle without a failure handles every item of the work list and every
\* key to remove
CompleteCycleHandlesAll ==
    CycleComplete
    => /\ \A item \in Range(WorkList) : KeyOf(item) \in deleteCalls
       /\ (DOMAIN indexed \ currentKeys) \subseteq removed

\* a cycle ended between the delete and the upsert of index_post, and the
\* cycle after it pulled the same items and returned
CutThenComplete ==
    /\ ipc = "idle"
    /\ Len(hist) = 2
    /\ hist[1].complete
    /\ ~hist[2].complete
    /\ hist[2].cut # {}
    /\ hist[1].remote = hist[2].remote

KeysWithChunks(r) == {KeyOf(x) : x \in {y \in r : BuildChunks(y) # <<>>}}

\* C28: when a cycle has returned without a failure, whatever earlier
\* cycles (complete or interrupted) left in the store, the keys of the
\* store are the keys of the pulled items that yield a chunk, and every
\* stored chunk of such a key carries the content hash of the pulled item.
C28_StoreMirrorsRemote ==
    CycleComplete =>
        /\ StoreKeys(store) = KeysWithChunks(hist[1].remote)
        /\ \A x \in hist[1].remote :
              \A r \in Matching(store, KeyOf(x)) : r.content_hash = ContentHash(x)

\* the part of C28 that does not depend on the number of stored chunks:
\* every pulled item that yields a chunk has its key in the store
RemoteKeysAreStored ==
    CycleComplete => KeysWithChunks(hist[1].remote) \subseteq StoreKeys(store)

\* an item of the latest pull that had another slug in the pull before
SlugChanges ==
    {c \in hist[2].remote \X hist[1].remote :
        /\ c[1].id = c[2].id
        /\ c[1].slug # c[2].slug
        /\ BuildChunks(c[1]) # <<>>
        /\ BuildChunks(c[2]) # <<>>
        /\ \A z \in hist[1].remote : KeyOf(z) # KeyOf(c[1])}

\* C29: when an item keeps its id and content type and changes its slug
\* between two complete cycles, then after the second cycle no chunk is
\* stored under the old slug and every chunk of the new version is stored
\* under the new slug.
C29_SlugChangeMovesChunks ==
    (CycleComplete /\ Len(hist) = 2 /\ hist[2].complete) =>
        \A c \in SlugChanges :
            /\ Matching(store, KeyOf(c[1])) = {}
            /\ Range(BuildChunks(c[2])) \subseteq Matching(store, KeyOf(c[2]))

\* the parts of C29 that do not depend on the number of chunks: the new
\* chunks are stored under the new slug, and a delete of the removal pass
\* changes no row of another key
SlugChangeStoresNewChunks ==
    (CycleComplete /\ Len(hist) = 2 /\ hist[2].complete) =>
        \A c \in SlugChanges :
            Range(BuildChunks(c[2])) \subseteq Matching(store, KeyOf(c[2]))

RemovalSparesOtherKeys ==
    [][(ipc = "remove" /\ ipc' = "remove") =>
          \A key \in StoreKeys(store) :
              key \notin removed' => Matching(store', key) = Matching(store, key)]_vars

(***************************************************************************)
(* Claims about the chunker                                                *)
(***************************************************************************)
\* C25: the chunks _build_chunks_and_hash returns carry chunk_index 0, 1,
\* ..., n-1 in list order and total_chunks = n, n being the number of
\* chunks returned.
C25_ChunkIndexIsContiguous ==
    cPc = "done" =>
        \A k \in 1..Len(cChunks) :
            /\ cChunks[k].chunk_index = k - 1
            /\ cChunks[k].total_chunks = Len(cChunks)

\* the same for a post whose title and subtitle are not blank
ChunkIndexIsContiguousWithoutBlanks ==
    (cPc = "done" /\ cPost.title # <<" ">> /\ cPost.subtitle # <<" ">>) =>
        \A k \in 1..Len(cChunks) :
            /\ cChunks[k].chunk_index = k - 1
            /\ cChunks[k].total_chunks = Len(cChunks)

\* text starts with prefix
StartsWith(text, prefix) ==
    Len(prefix) <= Len(text) /\ SubSeq(text, 1, Len(prefix)) = prefix

\* C26: the text of every chunk starts with the title of the item.
C26_ChunkTextStartsWithTitle ==
    (cPc = "done" /\ Strip(cPost.title) # <<>>) =>
        \A k \in 1..Len(cChunks) : StartsWith(cChunks[k].chunk_text, Strip(cPost.title))

\* the chunk of index 0 of an item with a title is the title
FirstChunkIsTitle ==
    (cPc = "done" /\ Strip(cPost.title) # <<>>) =>
        (cChunks # <<>> /\ cChunks[1].chunk_text = Strip(cPost.title))

\* the window step the specification gives
ClaimedStep == IF cSize - cOverlap >= 1 THEN cSize - cOverlap ELSE 1

\* C27: for a paragraph of more than chunk_size words, with chunk_size >= 1
\* and any chunk_overlap >= 0 (also overlap >= size), _chunk_by_paragraphs
\* comes to its end; its windows start every max(chunk_size -
\* chunk_overlap, 1) words, each has at most chunk_size words in their
\* original order, and every word of the paragraph is in some window.
C27_WindowsCoverParagraph ==
    /\ <>(cPc = "done")
    /\ []((cPc \in {"assemble", "done"} /\ cPost.words > cSize) =>
            /\ \A k \in 1..Len(cPara) :
                  /\ (k - 1) * ClaimedStep < cPost.words
                  /\ cPara[k] = SubSeq(ParagraphWords, (k - 1) * ClaimedStep + 1,
                                       Min((k - 1) * ClaimedStep + cSize, cPost.words))
                  /\ Len(cPara[k]) >= 1
                  /\ Len(cPara[k]) <= cSize
            /\ \A w \in 1..cPost.words :
                  \E k \in 1..Len(cPara) :
                      \E j \in 1..Len(cPara[k]) : cPara[k][j] = ParagraphWords[w])

\* a paragraph longer than chunk_size was cut with an overlap of at least
\* chunk_size: the windows advance by one word
C27_Witness ==
    /\ cPc = "done"
    /\ cPost.words > cSize
    /\ cOverlap >= cSize
    /\ Len(cPara) = cPost.words

(***************************************************************************)
(* Claims about get_post_markdown                                          *)
(***************************************************************************)
\* C30: what get_post_markdown returns for a call without content type (as
\* fetch calls it) is assembled from the chunks of one document: the
\* chunks of a post and of a page of the same slug are never combined.
C30_MarkdownIsOfOneDocument ==
    (fOut.status = "found" /\ fReq.content_type = "none") =>
        \A i, j \in 1..Len(fOut.chunks) :
            /\ fOut.chunks[i].post_id = fOut.chunks[j].post_id
            /\ fOut.chunks[i].content_type = fOut.chunks[j].content_type

\* a call with a content type returns chunks of one document
TypedMarkdownIsOfOneDocument ==
    (fOut.status = "found" /\ fReq.content_type # "none") =>
        \A i, j \in 1..Len(fOut.chunks) :
            /\ fOut.chunks[i].post_id = fOut.chunks[j].post_id
            /\ fOut.chunks[i].content_type = fOut.chunks[j].content_type

====
